---------------------------- MODULE Spec2Model ----------------------------
(***************************************************************************)
(* A model of src/app.py: the Streamlit "Solve Logic" button handler and   *)
(* the three stages it sequences (translate_to_asp, run_clingo,            *)
(* interpret_solution).                                                    *)
(*                                                                         *)
(* Text is a sequence of one-character strings, so that Python's str       *)
(* operations (in, split, replace, strip, startswith) are computed the way *)
(* the interpreter computes them.  The two external systems (the Gemini    *)
(* service and the clingo library) are the environment: what they return   *)
(* or raise is chosen nondeterministically.                                *)
(***************************************************************************)
EXTENDS Naturals, Sequences, FiniteSets

VARIABLES
    secrets,        \* st.secrets: the host's secret store, read at line 8
    req,            \* number of button presses so far
    query,          \* the text area content of the current run (line 105)
    pc,             \* state of the current request
    client,         \* handler local `client` (line 115)
    text,           \* translate_to_asp local `text` (line 39)
    asp_code,       \* handler local `asp_code` (line 120)
    acc,            \* run_clingo local `models` (line 52), the accumulator
    ext,            \* what each external call of the current request did
    discovered,     \* the models clingo handed to on_model, in order
    models,         \* handler local `models` (line 126)
    clingo_output,  \* interpret_solution parameter `clingo_output`
    final_answer,   \* handler local `final_answer` (line 132)
    status,         \* label of the st.status box
    ui,             \* what the current run rendered, in order
    calls,          \* stages invoked in the current request, in order
    prevModels      \* `models` as the previous request left it

vars == <<secrets, req, query, pc, client, text, asp_code, acc, ext,
          discovered, models, clingo_output, final_answer, status, ui,
          calls, prevModels>>

-----------------------------------------------------------------------------
(* Bounds *)

MaxRequests == 2
MaxModels == 2
MaxInner == 3

-----------------------------------------------------------------------------
(* Python values and str operations *)

\* Python's None, where a str (a sequence of characters) may stand too.
None == <<"<None>">>

\* Truthiness of a str: `not s` is true of the empty str only.
Truthy(s) == s # <<>>

Whitespace == {" ", "\n", "\t"}

\* s[i:] and s[:i] in Python's 0-based slices, on 1-based sequences.
Drop(s, n) == SubSeq(s, n + 1, Len(s))
Take(s, n) == SubSeq(s, 1, n)

StartsWith(s, prefix) ==
    Len(s) >= Len(prefix) /\ Take(s, Len(prefix)) = prefix

\* str.find: the least 1-based index at which sub occurs in s, 0 if none.
Find(s, sub) ==
    LET hits == {i \in 1..(Len(s) + 1) :
                    i + Len(sub) - 1 <= Len(s)
                    /\ SubSeq(s, i, i + Len(sub) - 1) = sub}
    IN  IF hits = {} THEN 0 ELSE CHOOSE i \in hits : \A j \in hits : i <= j

\* sub in s
Contains(s, sub) == Find(s, sub) # 0

\* s.split(sep)[1], given sep in s: the text between the first occurrence
\* of sep and the next one after it (or the end of s).
SplitSecond(s, sep) ==
    LET rest == Drop(s, Find(s, sep) + Len(sep) - 1)
        nxt == Find(rest, sep)
    IN  IF nxt = 0 THEN rest ELSE Take(rest, nxt - 1)

\* s.replace(old, ""): every non-overlapping occurrence, left to right.
RECURSIVE Remove(_, _)
Remove(s, old) ==
    IF Len(s) < Len(old) THEN s
    ELSE IF StartsWith(s, old) THEN Remove(Drop(s, Len(old)), old)
    ELSE <<Head(s)>> \o Remove(Tail(s), old)

RECURSIVE LStrip(_)
LStrip(s) ==
    IF s # <<>> /\ Head(s) \in Whitespace THEN LStrip(Tail(s)) ELSE s

RECURSIVE RStrip(_)
RStrip(s) ==
    IF s # <<>> /\ s[Len(s)] \in Whitespace
    THEN RStrip(Take(s, Len(s) - 1)) ELSE s

\* s.strip()
Strip(s) == RStrip(LStrip(s))

\* " ".join(parts)
RECURSIVE Join(_)
Join(parts) ==
    IF parts = <<>> THEN <<>>
    ELSE IF Len(parts) = 1 THEN Head(parts)
    ELSE Head(parts) \o <<" ">> \o Join(Tail(parts))

\* All sequences over S of length at most n.
SeqsUpTo(S, n) == UNION {[1..k -> S] : k \in 0..n}

Range(s) == {s[i] : i \in 1..Len(s)}

-----------------------------------------------------------------------------
(* String literals of app.py *)

PLACEHOLDER ==
    <<"Y", "O", "U", "R", "_", "A", "P", "I", "_", "K", "E", "Y", "_",
      "H", "E", "R", "E">>
YOUR_API == <<"Y", "O", "U", "R", "_", "A", "P", "I">>
\* The backtick character.  TLA+ strings admit no backtick, so "^" stands
\* for it; no other text of the model contains "^".
BackTick == "^"
\* The markdown code fence, three backticks.
Fence == <<BackTick, BackTick, BackTick>>
TagAsp == <<"a", "s", "p">>
TagClingo == <<"c", "l", "i", "n", "g", "o">>
UNSAT ==
    <<"U", "N", "S", "A", "T", "I", "S", "F", "I", "A", "B", "L", "E", " ",
      "(", "N", "o", " ", "s", "o", "l", "u", "t", "i", "o", "n", " ",
      "f", "o", "u", "n", "d", ")">>
ClingoErrorPrefix ==
    <<"C", "l", "i", "n", "g", "o", " ", "E", "r", "r", "o", "r", ":", " ">>
InterpretationErrorPrefix ==
    <<"I", "n", "t", "e", "r", "p", "r", "e", "t", "a", "t", "i", "o", "n",
      " ", "E", "r", "r", "o", "r", ":", " ">>
TranslationErrorPrefix ==
    <<"T", "r", "a", "n", "s", "l", "a", "t", "i", "o", "n", " ",
      "E", "r", "r", "o", "r", ":", " ">>

-----------------------------------------------------------------------------
(* The environment: what the user, the host and the two services supply *)

\* A secret store is a function from setting names to values.
NoSecrets == [n \in {} |-> <<>>]
WithKey(k) == [n \in {"GOOGLE_API_KEY"} |-> k]
ValidKey == <<"k", "1">>

\* The stores a deployment can have: the key absent, empty, left as the
\* placeholder, a value that embeds the placeholder's marker, a real key.
SecretStores ==
    {NoSecrets, WithKey(<<>>), WithKey(PLACEHOLDER),
     WithKey(<<"m", "y">> \o YOUR_API), WithKey(ValidKey)}

\* Text area contents: empty, whitespace only, a question.
Queries == {<<>>, <<" ">>, <<" ", "\n">>, <<"q", "?">>}

\* Messages of the exceptions the services raise.
RemoteErrors == {<<"4", "2", "9">>}
SolverErrors == {<<"p", "a", "r", "s", "e">>}
\* TypeError of `"..." in None` (line 40) and of ctl.add("base", [], None).
NoneTypeError == <<"N", "o", "n", "e", "T", "y", "p", "e">>

\* A fenced response: opening fence, tag, newline, inner text, closing fence.
Fenced(tag, inner) == Fence \o tag \o <<"\n">> \o inner \o Fence
Tags == {TagAsp, TagClingo}

\* Response texts the pipeline is run on: a tagged block, an untagged
\* block, a block whose program names the predicate clasp, bare text.
SampleTexts ==
    {Fenced(TagAsp, <<"a", ".", "\n">>),
     Fenced(<<>>, <<"a", ".", "\n">>),
     Fenced(TagClingo, <<"c", "l", "a", "s", "p", ".">>),
     <<"a", ".", " ">>}

\* The outcome of one generate_content call: it raises err, or returns a
\* response whose .text is a str or None (a response without text parts).
Raised(e) == [raised |-> TRUE, text |-> None, err |-> e]
Returned(t) == [raised |-> FALSE, text |-> t, err |-> None]
TranslateOutcomes ==
    {Raised(e) : e \in RemoteErrors} \cup
    {Returned(t) : t \in SampleTexts \cup {None}}
InterpretOutcomes ==
    {Raised(e) : e \in RemoteErrors} \cup
    {Returned(t) : t \in {<<"o", "k">>, None}}

\* clingo models: each a sequence of atoms.
ClingoModels == {<<"a">>, <<"a", "b">>}
Verdicts == {"sat", "unsat", "unknown"}

-----------------------------------------------------------------------------
(* The functions of app.py *)

\* st.secrets.get(name, default)
SecretsGet(store, name, default) ==
    IF name \in DOMAIN store THEN store[name] ELSE default

\* line 8
API_KEY == SecretsGet(secrets, "GOOGLE_API_KEY", PLACEHOLDER)

\* The key test without the placeholder test.
get_gemini_client_EmptyOnly(key) ==
    IF ~Truthy(key)
    THEN [client |-> "None", shown |-> <<"error">>]
    ELSE [client |-> "Client", shown |-> <<>>]

\* lines 10-14: the client, and what the call renders.
get_gemini_client(key) ==
    IF ~Truthy(key) \/ Contains(key, YOUR_API)
    THEN [client |-> "None", shown |-> <<"error">>]
    ELSE [client |-> "Client", shown |-> <<>>]

\* lines 40-43: the program text taken from the response text.
ExtractProgram(t) ==
    IF Contains(t, Fence)
    THEN Strip(Remove(Remove(SplitSecond(t, Fence), TagAsp), TagClingo))
    ELSE Strip(t)

\* lines 33-46: the value returned and the error rendered (None: none).
translate_to_asp(outcome) ==
    IF outcome.raised
    THEN [value |-> None, error |-> TranslationErrorPrefix \o outcome.err]
    ELSE IF outcome.text = None
    THEN [value |-> None, error |-> TranslationErrorPrefix \o NoneTypeError]
    ELSE [value |-> ExtractProgram(outcome.text), error |-> None]

\* str(m) of a clingo model: its atoms, separated by spaces.
StrModel(m) == Join([i \in 1..Len(m) |-> <<m[i]>>])

\* The accumulator carried over from the call before.
StaleAccumulator == acc

\* line 52: models = []
NewAccumulator == <<>>

\* The callback putting the model first.
on_model_Prepend(ms, m) == <<StrModel(m)>> \o ms

\* lines 54-56: models.append(str(m))
on_model(ms, m) == Append(ms, StrModel(m))

\* result.satisfiable of a SolveResult: True, False, or None (unknown).
Satisfiable(verdict) ==
    CASE verdict = "sat" -> "True"
      [] verdict = "unsat" -> "False"
      [] OTHER -> "None"

\* lines 65-68: the value run_clingo returns when solve returned.
RunClingoReturn(ms, verdict) ==
    IF Satisfiable(verdict) = "True" THEN ms ELSE <<UNSAT>>

\* The except branch reporting the error after the models found so far.
RunClingoExcept_KeepModels(ms, e) == Append(ms, ClingoErrorPrefix \o e)

\* lines 69-70: the value run_clingo returns when add, ground or solve raised.
RunClingoExcept(ms, e) == <<ClingoErrorPrefix \o e>>

\* The interpreter signalling failure the way the translator does.
interpret_solution_Absent(outcome) ==
    IF outcome.raised THEN None ELSE outcome.text

\* lines 89-96
interpret_solution(outcome) ==
    IF outcome.raised
    THEN InterpretationErrorPrefix \o outcome.err
    ELSE outcome.text

-----------------------------------------------------------------------------
(* The "Solve Logic" button handler, lines 111-138 *)

\* No external call of the request has been made yet.
NoCalls == [translate |-> "none", solve |-> "none", interpret |-> "none"]

\* What the handler renders: the widget and its body.
Shown(kind, body) == [kind |-> kind, body |-> body]

Init ==
    /\ secrets \in SecretStores
    /\ req = 0
    /\ query = <<>>
    /\ pc = "Waiting"
    /\ client = "None"
    /\ text = None
    /\ asp_code = None
    /\ acc = <<>>
    /\ ext = NoCalls
    /\ discovered = <<>>
    /\ models = <<>>
    /\ clingo_output = <<>>
    /\ final_answer = None
    /\ status = "none"
    /\ ui = <<>>
    /\ calls = <<>>
    /\ prevModels = <<>>

\* The user presses the button with q in the text area: Streamlit runs the
\* script afresh, every name of the run unbound and the page empty, and
\* st.button returns True (line 111).  run_clingo's list of the call
\* before is garbage that line 52 replaces; acc keeps it until then.
Press(q) ==
    /\ pc \in {"Waiting", "Done", "Aborted"}
    /\ req < MaxRequests
    /\ req' = req + 1
    /\ query' = q
    /\ pc' = "Idle"
    /\ client' = "None"
    /\ text' = None
    /\ asp_code' = None
    /\ ext' = NoCalls
    /\ discovered' = <<>>
    /\ models' = <<>>
    /\ clingo_output' = <<>>
    /\ final_answer' = None
    /\ status' = "none"
    /\ ui' = <<>>
    /\ calls' = <<>>
    /\ prevModels' = models
    /\ UNCHANGED <<secrets, acc>>

\* lines 112-120: the two guards, then the call of translate_to_asp.
Start ==
    /\ pc = "Idle"
    /\ IF ~Truthy(query)
       THEN /\ ui' = Append(ui, Shown("warning", <<>>))
            /\ pc' = "Aborted"
            /\ UNCHANGED <<client, status, calls>>
       ELSE LET got == get_gemini_client(API_KEY)
                errs == [i \in 1..Len(got.shown) |-> Shown(got.shown[i], <<>>)]
            IN  /\ client' = got.client
                /\ ui' = ui \o errs
                /\ IF got.client # "None"
                   THEN /\ status' = "Thinking"
                        /\ calls' = Append(calls, "translate_to_asp")
                        /\ pc' = "Translating"
                   ELSE /\ pc' = "Aborted"
                        /\ UNCHANGED <<status, calls>>
    /\ UNCHANGED <<secrets, req, query, text, asp_code, acc, ext, discovered,
                   models, clingo_output, final_answer, prevModels>>

\* The handler asking for the explanation before it runs the solver.
HandlerAfterTranslate_InterpretFirst(r) ==
    /\ asp_code' = r.value
    /\ ui' = Append(ui, Shown("code", r.value))
    /\ status' = "Synthesizing"
    /\ calls' = Append(calls, "interpret_solution")
    /\ acc' = NewAccumulator
    /\ discovered' = <<>>
    /\ pc' = "Interpreting"

\* lines 120-126: translate_to_asp came back with r; the program is
\* rendered and run_clingo is called on it.
HandlerAfterTranslate(r) ==
    /\ asp_code' = r.value
    /\ ui' = ui \o (IF r.error = None THEN <<>>
                    ELSE <<Shown("error", r.error)>>)
               \o <<Shown("code", r.value)>>
    /\ status' = "Reasoning"
    /\ calls' = Append(calls, "run_clingo")
    /\ acc' = NewAccumulator
    /\ discovered' = <<>>
    /\ pc' = "Solving"

\* The generate_content call of translate_to_asp returns or raises.
TranslateDone(outcome) ==
    /\ pc = "Translating"
    /\ text' = outcome.text
    /\ ext' = [ext EXCEPT !.translate =
                    IF outcome.raised THEN "raised" ELSE "returned",
                  !.solve = "running"]
    /\ HandlerAfterTranslate(translate_to_asp(outcome))
    /\ UNCHANGED <<secrets, req, query, client, models, clingo_output,
                   final_answer, prevModels>>

\* clingo finds a model and calls on_model (lines 54-56, 63).
OnModel(m) ==
    /\ pc = "Solving"
    /\ asp_code # None
    /\ Len(discovered) < MaxModels
    /\ acc' = on_model(acc, m)
    /\ discovered' = Append(discovered, m)
    /\ UNCHANGED <<secrets, req, query, pc, client, text, asp_code, ext,
                   models, clingo_output, final_answer, status, ui, calls,
                   prevModels>>

\* The handler stopping at a solver error instead of explaining it.
HandlerAfterSolve_AbortOnError(ms) ==
    /\ models' = ms
    /\ ui' = Append(ui, Shown("json", ms))
    /\ IF Len(ms) = 1 /\ StartsWith(ms[1], ClingoErrorPrefix)
       THEN /\ pc' = "Aborted"
            /\ UNCHANGED <<status, calls, clingo_output>>
       ELSE /\ status' = "Synthesizing"
            /\ calls' = Append(calls, "interpret_solution")
            /\ clingo_output' = ms
            /\ pc' = "Interpreting"

\* lines 126-132: run_clingo came back with ms; it is rendered and
\* interpret_solution is called on it.
HandlerAfterSolve(ms) ==
    /\ models' = ms
    /\ ui' = Append(ui, Shown("json", ms))
    /\ status' = "Synthesizing"
    /\ calls' = Append(calls, "interpret_solution")
    /\ clingo_output' = ms
    /\ pc' = "Interpreting"

\* ctl.solve returns: satisfiable exactly when it reported a model.
SolveReturn(verdict) ==
    /\ pc = "Solving"
    /\ asp_code # None
    /\ (verdict = "sat") <=> (discovered # <<>>)
    /\ ext' = [ext EXCEPT !.solve = verdict]
    /\ HandlerAfterSolve(RunClingoReturn(acc, verdict))
    /\ UNCHANGED <<secrets, req, query, client, text, asp_code, acc,
                   discovered, final_answer, prevModels>>

\* ctl.add, ctl.ground or ctl.solve raises; add always does on None.
SolveRaise(e) ==
    /\ pc = "Solving"
    /\ e \in (IF asp_code = None THEN {NoneTypeError} ELSE SolverErrors)
    /\ ext' = [ext EXCEPT !.solve = "raised"]
    /\ HandlerAfterSolve(RunClingoExcept(acc, e))
    /\ UNCHANGED <<secrets, req, query, client, text, asp_code, acc,
                   discovered, final_answer, prevModels>>

\* lines 132-138: interpret_solution came back with answer.
HandlerAfterInterpret(answer) ==
    /\ final_answer' = answer
    /\ status' = "Complete"
    /\ ui' = Append(ui, Shown("markdown", answer))
    /\ pc' = "Done"

\* The generate_content call of interpret_solution returns or raises.
InterpretDone(outcome) ==
    /\ pc = "Interpreting"
    /\ ext' = [ext EXCEPT !.interpret =
                    IF outcome.raised THEN "raised" ELSE "returned"]
    /\ HandlerAfterInterpret(interpret_solution(outcome))
    /\ UNCHANGED <<secrets, req, query, client, text, asp_code, acc,
                   discovered, models, clingo_output, calls, prevModels>>

Next ==
    \/ \E q \in Queries : Press(q)
    \/ Start
    \/ \E o \in TranslateOutcomes : TranslateDone(o)
    \/ \E m \in ClingoModels : OnModel(m)
    \/ \E v \in Verdicts : SolveReturn(v)
    \/ \E e \in SolverErrors \cup {NoneTypeError} : SolveRaise(e)
    \/ \E o \in InterpretOutcomes : InterpretDone(o)

Spec == Init /\ [][Next]_vars

\* Every step of a started request is taken: the handler runs to its end,
\* and each external call returns or raises.
FairSpec ==
    /\ Spec
    /\ WF_vars(Start)
    /\ WF_vars(\E o \in TranslateOutcomes : TranslateDone(o))
    /\ WF_vars((\E v \in Verdicts : SolveReturn(v))
               \/ (\E e \in SolverErrors \cup {NoneTypeError} : SolveRaise(e)))
    /\ WF_vars(\E o \in InterpretOutcomes : InterpretDone(o))

-----------------------------------------------------------------------------
(* The extraction of lines 40-43 on its own, over all bounded responses *)

InnerChars == {"a", "s", "p", "x", " "}
Inners == SeqsUpTo(InnerChars, MaxInner)

\* Fenced blocks with either tag or none, and text without a fence.
ExtractTexts ==
    {Fenced(tag, inner) : tag \in Tags \cup {<<>>}, inner \in Inners}
    \cup Inners

ExtractInit ==
    /\ secrets = WithKey(ValidKey)
    /\ req = 1
    /\ query = <<"q", "?">>
    /\ pc = "Extract"
    /\ client = "Client"
    /\ text \in ExtractTexts
    /\ asp_code = None
    /\ acc = <<>>
    /\ ext = NoCalls
    /\ discovered = <<>>
    /\ models = <<>>
    /\ clingo_output = <<>>
    /\ final_answer = None
    /\ status = "Thinking"
    /\ ui = <<>>
    /\ calls = <<"translate_to_asp">>
    /\ prevModels = <<>>

\* translate_to_asp returns the program extracted from the response text.
ExtractApply ==
    /\ pc = "Extract"
    /\ asp_code' = translate_to_asp(Returned(text)).value
    /\ pc' = "Extracted"
    /\ UNCHANGED <<secrets, req, query, client, text, acc, ext, discovered,
                   models, clingo_output, final_answer, status, ui, calls,
                   prevModels>>

ExtractNext == ExtractApply

SpecExtract == ExtractInit /\ [][ExtractNext]_vars

-----------------------------------------------------------------------------
(* The claims *)

ClingoErrorColon == Take(ClingoErrorPrefix, 13)
InterpretationErrorColon == Take(InterpretationErrorPrefix, 21)

\* The request has got past the handler's guards or been turned away.
Entered == pc \notin {"Waiting", "Idle"}

Count(s, x) == Cardinality({i \in 1..Len(s) : s[i] = x})

\* str(m) of each model clingo reported, in the order of the callbacks.
DiscoveredStrings == [i \in 1..Len(discovered) |-> StrModel(discovered[i])]

\* C1: a request whose Query is empty or only whitespace invokes none of
\* the three stages: it is turned away, and nothing a stage produces is
\* shown.  (Which message turns it away is left open here, so that the
\* formula fails only where a stage is in fact invoked.)
C1_BlankQueryInvokesNoStage ==
    (Entered /\ Strip(query) = <<>>) =>
        /\ pc = "Aborted"
        /\ calls = <<>>
        /\ \A i \in 1..Len(ui) : ui[i].kind \in {"warning", "error"}

\* C2: when the Translator's remote call raises, the request aborts at the
\* translation stage: run_clingo and interpret_solution are not invoked
\* and the request ends in Aborted, not Done.
C2_TranslateErrorAborts ==
    (ext.translate = "raised") =>
        /\ pc = "Aborted"
        /\ asp_code = None
        /\ "run_clingo" \notin Range(calls)
        /\ "interpret_solution" \notin Range(calls)

\* C3: with a non-empty Query and the credential absent, empty or the
\* placeholder, get_gemini_client returns no client, a configuration error
\* is shown and no stage is invoked.
C3_BadCredentialBlocksPipeline ==
    (/\ Entered
     /\ Truthy(query)
     /\ \/ "GOOGLE_API_KEY" \notin DOMAIN secrets
        \/ secrets["GOOGLE_API_KEY"] \in {<<>>, PLACEHOLDER}) =>
        /\ client = "None"
        /\ pc = "Aborted"
        /\ calls = <<>>
        /\ Len(ui) = 1
        /\ ui[1].kind = "error"

C3_Witness ==
    /\ pc = "Aborted"
    /\ Truthy(query)
    /\ "GOOGLE_API_KEY" \in DOMAIN secrets
    /\ secrets["GOOGLE_API_KEY"] = PLACEHOLDER

\* C4: from a response holding a well-formed fenced block tagged asp or
\* clingo, the extraction returns the inner text trimmed, whatever
\* characters it holds, with no character added, removed or changed.
C4_FencedExtractionExact ==
    (pc = "Extracted") =>
        \A tag \in Tags, inner \in Inners :
            (text = Fenced(tag, inner)) => (asp_code = Strip(inner))

\* C5: when loading, grounding or solving raises, run_clingo does not
\* raise: the handler goes on with a sequence of exactly one string that
\* starts with "Clingo Error:", however many models had been appended.
C5_SolverErrorYieldsOneSentinel ==
    (ext.solve = "raised") =>
        /\ pc \in {"Interpreting", "Done"}
        /\ Len(models) = 1
        /\ StartsWith(models[1], ClingoErrorColon)

C5_Witness ==
    /\ ext.solve = "raised"
    /\ Len(discovered) >= 2

\* C6: when the solve completes, a satisfiable verdict returns exactly the
\* stringified models in callback order, and an unsatisfiable verdict
\* returns exactly ["UNSATISFIABLE (No solution found)"].
C6_SolveResultFollowsVerdict ==
    /\ (ext.solve = "sat") => (models = DiscoveredStrings)
    /\ (ext.solve = "unsat") => (models = <<UNSAT>>)

C6_Witness ==
    /\ ext.solve = "sat"
    /\ Len(discovered) = 2
    /\ discovered[1] # discovered[2]

\* C7: when the solver stage fails the pipeline does not abort:
\* interpret_solution is invoked exactly once, on the one-element sentinel
\* sequence that run_clingo returned and that was displayed.
C7_SolverErrorReachesInterpreter ==
    (ext.solve = "raised") =>
        /\ pc \in {"Interpreting", "Done"}
        /\ Count(calls, "interpret_solution") = 1
        /\ clingo_output = models
        /\ Len(clingo_output) = 1
        /\ StartsWith(clingo_output[1], ClingoErrorColon)
        /\ \E i \in 1..Len(ui) : ui[i].kind = "json" /\ ui[i].body = models

C7_Witness ==
    /\ ext.solve = "raised"
    /\ asp_code # None
    /\ pc = "Done"

\* C8: when the Interpreter's remote call raises, interpret_solution
\* returns a string starting with "Interpretation Error:", never an absent
\* result; it is displayed as the explanation and the request is Done.
C8_InterpretErrorBecomesExplanation ==
    (ext.interpret = "raised") =>
        /\ pc = "Done"
        /\ final_answer # None
        /\ StartsWith(final_answer, InterpretationErrorColon)
        /\ ui[Len(ui)].kind = "markdown"
        /\ ui[Len(ui)].body = final_answer

C8_Witness ==
    /\ ext.interpret = "raised"
    /\ ext.solve = "sat"
    /\ pc = "Done"

Stages == <<"translate_to_asp", "run_clingo", "interpret_solution">>

\* The stages invoked so far are an initial part of the three, in order,
\* and the request is in the state of the last one invoked, which was
\* called only after the one before it came back.
C9_Order ==
    /\ Len(calls) <= 3
    /\ calls = Take(Stages, Len(calls))
    /\ (pc = "Translating") =>
            (Len(calls) = 1 /\ ext.translate = "none")
    /\ (pc = "Solving") =>
            (Len(calls) = 2 /\ ext.translate # "none"
                /\ ext.solve = "running")
    /\ (pc = "Interpreting") =>
            (Len(calls) = 3 /\ ext.solve \notin {"none", "running"}
                /\ ext.interpret = "none")

\* The transitions of one request, and the start of the next.
C9_Step ==
    (pc' # pc) =>
        \/ pc \in {"Waiting", "Done", "Aborted"} /\ pc' = "Idle"
        \/ pc = "Idle" /\ pc' \in {"Translating", "Aborted"}
        \/ pc = "Translating" /\ pc' \in {"Solving", "Aborted"}
        \/ pc = "Solving" /\ pc' = "Interpreting"
        \/ pc = "Interpreting" /\ pc' = "Done"

\* C9: every request follows Idle, Translating, Solving, Interpreting,
\* Done, each stage at most once and only after the one before returned;
\* Aborted is entered only from Idle or Translating; and every started
\* request ends in Done or Aborted.
C9_StateMachine ==
    /\ [][C9_Step]_vars
    /\ []C9_Order
    /\ ((pc \in {"Idle", "Translating", "Solving", "Interpreting"})
            ~> (pc \in {"Done", "Aborted"}))

C9_Witness ==
    /\ req = 2
    /\ pc = "Done"
    /\ calls = Stages
    /\ ext.translate = "raised"

\* C10: each run_clingo call starts with an empty accumulator: what it
\* holds and what it returns are models of this call or a sentinel of this
\* call, never anything an earlier request left.
C10_NoLeftoverAcrossRequests ==
    /\ (pc = "Solving") => (acc = DiscoveredStrings)
    /\ (pc \in {"Interpreting", "Done"}) =>
            \/ models = DiscoveredStrings
            \/ models = <<UNSAT>>
            \/ \E e \in SolverErrors \cup {NoneTypeError} :
                    models = <<ClingoErrorPrefix \o e>>

C10_Witness ==
    /\ req = 2
    /\ pc = "Done"
    /\ Len(prevModels) = 2
    /\ ext.solve = "sat"
    /\ Len(models) = 1
    /\ models[1] \notin Range(prevModels)

=============================================================================
